---- MODULE Spec2Model ----
(***************************************************************************)
(* Model of assetid: the fingerprinting pipeline (main.go, processAssets)  *)
(* and the runtime resolver (assetid/assets_loader.go, Loader).            *)
(*                                                                         *)
(* Strings and byte slices are sequences of one-character strings, so that *)
(* filepath.Ext, strings.TrimSuffix, filepath.Join and hash[:8] are        *)
(* computed on the characters as the Go code computes them. Two elements   *)
(* stand for what is no ASCII character: "xFF" is the byte 0xFF, which is  *)
(* no valid UTF-8, and "uFFFD" is the Unicode replacement character.       *)
(***************************************************************************)
EXTENDS Integers, Sequences, FiniteSets, TLC

\* ------------------------------------------------------------------------
\* Bounds of the model
\* ------------------------------------------------------------------------
\* number of processAssets invocations in one behaviour
MaxRuns == 2
\* number of changes another program makes to the file tree between runs
MaxEdits == 1
\* number of Loader.Path calls in one behaviour
MaxCalls == 2
\* number of goroutines that call Loader.Path at the same time
MaxGoroutines == 2

\* ------------------------------------------------------------------------
\* Characters and strings
\* ------------------------------------------------------------------------
Ascii ==
  [c \in {" ", "!", "-", ".", "/", "0", "1", "2", "3", "4", "5", "6", "7",
          "8", "9", "a", "b", "c", "d", "e", "f", "i", "j", "m", "n", "o",
          "r", "s", "t", "x", "y", "z", "xFF"} |->
     CASE c = " " -> 32 [] c = "!" -> 33 [] c = "-" -> 45 [] c = "." -> 46
       [] c = "/" -> 47 [] c = "0" -> 48 [] c = "1" -> 49 [] c = "2" -> 50
       [] c = "3" -> 51 [] c = "4" -> 52 [] c = "5" -> 53 [] c = "6" -> 54
       [] c = "7" -> 55 [] c = "8" -> 56 [] c = "9" -> 57 [] c = "a" -> 97
       [] c = "b" -> 98 [] c = "c" -> 99 [] c = "d" -> 100 [] c = "e" -> 101
       [] c = "f" -> 102 [] c = "i" -> 105 [] c = "j" -> 106 [] c = "m" -> 109
       [] c = "n" -> 110 [] c = "o" -> 111 [] c = "r" -> 114 [] c = "s" -> 115
       [] c = "t" -> 116 [] c = "x" -> 120 [] c = "y" -> 121 [] c = "z" -> 122
       [] c = "xFF" -> 255]

\* byte-wise string comparison, the order sort.Strings gives directory names
RECURSIVE StrLess(_, _)
StrLess(a, b) ==
  IF b = <<>> THEN FALSE
  ELSE IF a = <<>> THEN TRUE
  ELSE IF Ascii[Head(a)] # Ascii[Head(b)] THEN Ascii[Head(a)] < Ascii[Head(b)]
  ELSE StrLess(Tail(a), Tail(b))

HasPrefix(s, p) == Len(s) >= Len(p) /\ SubSeq(s, 1, Len(p)) = p

HasSuffix(s, x) == Len(s) >= Len(x) /\ SubSeq(s, Len(s) - Len(x) + 1, Len(s)) = x

\* strings.TrimSuffix
TrimSuffix(s, x) == IF HasSuffix(s, x) THEN SubSeq(s, 1, Len(s) - Len(x)) ELSE s

\* index of the last occurrence of character c in s, 0 when there is none
LastIndex(s, c) ==
  LET at == {i \in 1..Len(s) : s[i] = c}
  IN  IF at = {} THEN 0 ELSE CHOOSE i \in at : \A j \in at : j <= i

\* the "/"-separated elements of a path, empty elements included
RECURSIVE Split(_)
Split(p) ==
  LET i == LastIndex(p, "/")
  IN  IF i = 0 THEN <<p>>
      ELSE Append(Split(SubSeq(p, 1, i - 1)), SubSeq(p, i + 1, Len(p)))

RECURSIVE JoinSegs(_)
JoinSegs(segs) ==
  IF segs = <<>> THEN <<>>
  ELSE IF Len(segs) = 1 THEN segs[1]
  ELSE segs[1] \o <<"/">> \o JoinSegs(Tail(segs))

\* ------------------------------------------------------------------------
\* path/filepath
\* ------------------------------------------------------------------------
\* the lexical processing of filepath.Clean on the elements of a path:
\* empty and "." elements are dropped, ".." removes the element before it,
\* is dropped at the root, and is kept at the start of a relative path
RECURSIVE CleanSegs(_, _, _)
CleanSegs(segs, acc, rooted) ==
  IF segs = <<>> THEN acc
  ELSE LET s == Head(segs)
           rest == Tail(segs)
       IN  IF s = <<>> \/ s = <<".">> THEN CleanSegs(rest, acc, rooted)
           ELSE IF s = <<".", ".">>
             THEN IF acc # <<>> /\ acc[Len(acc)] # <<".", ".">>
                    THEN CleanSegs(rest, SubSeq(acc, 1, Len(acc) - 1), rooted)
                  ELSE IF rooted THEN CleanSegs(rest, acc, rooted)
                  ELSE CleanSegs(rest, Append(acc, s), rooted)
           ELSE CleanSegs(rest, Append(acc, s), rooted)

\* filepath.Clean
Clean(p) ==
  IF p = <<>> THEN <<".">>
  ELSE LET rooted == p[1] = "/"
           body == JoinSegs(CleanSegs(Split(p), <<>>, rooted))
       IN  IF rooted THEN <<"/">> \o body
           ELSE IF body = <<>> THEN <<".">>
           ELSE body

\* filepath.Join of two elements: empty elements are ignored, the rest are
\* joined with the separator and the result is cleaned
Join(a, b) ==
  IF a = <<>> /\ b = <<>> THEN <<>>
  ELSE IF a = <<>> THEN Clean(b)
  ELSE IF b = <<>> THEN Clean(a)
  ELSE Clean(a \o <<"/">> \o b)

\* the suffix beginning at the final dot of the whole path
ExtAnyDot(p) ==
  LET d == LastIndex(p, ".")
  IN  IF d > 0 THEN SubSeq(p, d, Len(p)) ELSE <<>>

\* filepath.Ext: the suffix beginning at the final dot in the final element
\* of the path, empty when that element has no dot
Ext(p) ==
  LET d == LastIndex(p, ".")
      s == LastIndex(p, "/")
  IN  IF d > s THEN SubSeq(p, d, Len(p)) ELSE <<>>

\* filepath.Dir: all but the last element of the path, cleaned
Dir(p) ==
  LET i == LastIndex(p, "/")
  IN  Clean(SubSeq(p, 1, i))

\* filepath.Rel(base, targ) for a target at or below base, which is what
\* filepath.Walk(base, ...) hands to its callback
Rel(base, targ) ==
  IF Clean(targ) = Clean(base) THEN <<".">>
  ELSE SubSeq(Clean(targ), Len(Clean(base)) + 2, Len(Clean(targ)))

\* the proper ancestors of a cleaned relative path, nearest last
RECURSIVE Ancestors(_)
Ancestors(p) ==
  LET i == LastIndex(p, "/")
  IN  IF i = 0 THEN <<>>
      ELSE Append(Ancestors(SubSeq(p, 1, i - 1)), SubSeq(p, 1, i - 1))

\* p is inside directory d (d itself excluded)
Under(d, p) == HasPrefix(p, d \o <<"/">>)

\* ------------------------------------------------------------------------
\* Files
\* ------------------------------------------------------------------------
\* A file tree maps each existing path to its node: a directory, a file of
\* bytes, or manifest.json holding a JSON document.
JNull == [t |-> "null", s |-> <<>>, m |-> <<>>]

JString(str) == [t |-> "string", s |-> str, m |-> <<>>]

JNumber == [t |-> "number", s |-> <<>>, m |-> <<>>]

JArray == [t |-> "array", s |-> <<>>, m |-> <<>>]

JObject(members) == [t |-> "object", s |-> <<>>, m |-> members]

NoDoc == [syntax |-> "none", v |-> JNull]

DirNode == [kind |-> "dir", bytes |-> <<>>, doc |-> NoDoc]

BytesNode(b) == [kind |-> "bytes", bytes |-> b, doc |-> NoDoc]

JsonNode(d) == [kind |-> "json", bytes |-> <<>>, doc |-> d]

Exists(f, p) == p \in DOMAIN f

IsDir(f, p) == Exists(f, p) /\ f[p].kind = "dir"

IsFile(f, p) == Exists(f, p) /\ f[p].kind # "dir"

Restrict(f, S) == [p \in S |-> f[p]]

\* nothing is removed
KeepAll(f, d) == f

\* os.RemoveAll: the path and everything below it
RemoveAll(f, d) == Restrict(f, {p \in DOMAIN f : p # d /\ ~Under(d, p)})

\* the directories os.MkdirAll(d) needs: d and its ancestors
DirChain(d) ==
  IF d = <<".">> THEN {}
  ELSE {d} \cup {Ancestors(d)[i] : i \in 1..Len(Ancestors(d))}

\* os.MkdirAll fails when a file stands where a directory is needed
MkdirAllOk(f, d) == \A q \in DirChain(d) : ~IsFile(f, q)

MkdirAll(f, d) ==
  [p \in DOMAIN f \cup DirChain(d) |-> IF p \in DOMAIN f THEN f[p] ELSE DirNode]

\* os.Create / os.WriteFile fail on a directory and in a missing directory
CreateOk(f, p) == ~IsDir(f, p) /\ (Dir(p) = <<".">> \/ IsDir(f, Dir(p)))

PutNode(f, p, node) ==
  [q \in DOMAIN f \cup {p} |-> IF q = p THEN node ELSE f[q]]

\* the names of the entries of directory d
Names(f, d) ==
  {SubSeq(p, Len(d) + 2, Len(p)) :
     p \in {q \in DOMAIN f : Under(d, q) /\ LastIndex(q, "/") = Len(d) + 1}}

RECURSIVE SortNames(_)
SortNames(S) ==
  IF S = {} THEN <<>>
  ELSE LET least == CHOOSE n \in S : \A o \in S \ {n} : StrLess(n, o)
       IN  <<least>> \o SortNames(S \ {least})

\* readDirNames of filepath.Walk: the names of the directory, sorted
ReadDirNames(f, d) == SortNames(Names(f, d))

\* the files below directory d, by path relative to d, with their nodes
Tree(f, d) ==
  LET below == {p \in DOMAIN f : Under(d, p) /\ IsFile(f, p)}
  IN  [r \in {Rel(d, p) : p \in below} |-> f[d \o <<"/">> \o r]]

\* ------------------------------------------------------------------------
\* Hashing, naming and minifying (main.go)
\* ------------------------------------------------------------------------
\* md5.Size: the digest of crypto/md5 has 16 bytes
Size == 16

\* hash[:8]: the number of hex characters of the hash put into a file name
HashPrefixLen == 8

HexDigits ==
  <<"0", "1", "2", "3", "4", "5", "6", "7", "8", "9", "a", "b", "c", "d", "e", "f">>

\* fmt.Sprintf("%x", b) of one byte: two lower-case hex digits
HexByte(b) == <<HexDigits[(b \div 16) + 1], HexDigits[(b % 16) + 1]>>

RECURSIVE Hex(_)
Hex(bytes) == IF bytes = <<>> THEN <<>> ELSE HexByte(Head(bytes)) \o Hex(Tail(bytes))

\* The digest is a function of the bytes alone. MD5 itself is not computed:
\* a 16-bit running value of the content is spread over the Size bytes of
\* the digest, which tells apart the contents of this model.
RECURSIVE Mix(_, _)
Mix(data, h) ==
  IF data = <<>> THEN h
  ELSE Mix(Tail(data), (h * 31 + Ascii[Head(data)]) % 65536)

\* hash := md5.New(); io.Copy(hash, file); hash.Sum(nil)
Sum(data) ==
  LET h == Mix(data, 7 + Len(data))
  IN  [i \in 1..Size |-> (h * (2 * i + 1) + (h \div 256) + 13 * i) % 256]

\* a hash that takes the path of the file in as well as its bytes
HashWithPath(f, path) == Hex(Sum(f[path].bytes \o path))

\* calculateFileHash of a file that can be opened and read
CalculateFileHash(f, path) == Hex(Sum(f[path].bytes))

\* the name made of the hash and the extension alone
HashOnlyName(relPath, hash) == SubSeq(hash, 1, HashPrefixLen) \o Ext(relPath)

\* fmt.Sprintf("%s-%s%s", baseWithoutExt, hash[:8], ext)
FingerprintedName(relPath, hash) ==
  LET ext == Ext(relPath)
      baseWithoutExt == TrimSuffix(relPath, ext)
  IN  baseWithoutExt \o <<"-">> \o SubSeq(hash, 1, HashPrefixLen) \o ext

\* The JavaScript minifier is an external library. Here a "!" is what it
\* cannot parse, and blanks are what it removes.
MinifyOk(sourceCode) == \A i \in 1..Len(sourceCode) : sourceCode[i] # "!"

IsNotBlank(c) == c # " "

MinifySource(sourceCode) == SelectSeq(sourceCode, IsNotBlank)

JsExt == <<".", "j", "s">>

\* every file minified, whatever its extension
TransformAll(ext, sourceCode) == MinifySource(sourceCode)

\* the bytes processAssets writes for a file with extension ext
Transform(ext, sourceCode) ==
  IF ext = JsExt THEN MinifySource(sourceCode) ELSE sourceCode

ManifestName == <<"m", "a", "n", "i", "f", "e", "s", "t", ".", "j", "s", "o", "n">>

AssetsKey == <<"a", "s", "s", "e", "t", "s">>

EmptyMap == <<>>

MapPut(m, k, v) == [x \in DOMAIN m \cup {k} |-> IF x = k THEN v ELSE m[x]]

\* encoding/json writes a Go string as a JSON string: each byte that is no
\* valid UTF-8 becomes the replacement character
InvalidByte == "xFF"

Replacement == "uFFFD"

Coerce(str) ==
  [i \in 1..Len(str) |-> IF str[i] = InvalidByte THEN Replacement ELSE str[i]]

\* json.Encoder.Encode(AssetManifest{Assets: m}): an object with the one key
\* "assets" whose value is an object of strings; the keys are written in
\* sorted order, so of two keys that are coerced to the same string the
\* greater comes last in the text
Encode(m) ==
  LET keys == {Coerce(k) : k \in DOMAIN m}
      from(c) == CHOOSE k \in DOMAIN m :
                   /\ Coerce(k) = c
                   /\ \A o \in DOMAIN m : (Coerce(o) = c /\ o # k) => StrLess(o, k)
  IN  [syntax |-> "ok",
       v |-> JObject(MapPut(EmptyMap, AssetsKey,
                            JObject([c \in keys |-> JString(Coerce(m[from(c)]))])))]

\* ------------------------------------------------------------------------
\* The resolver (assetid/assets_loader.go)
\* ------------------------------------------------------------------------
\* encoding/json matches an object key to the field tag "assets" without
\* regard to case
Lower(c) == IF c = "A" THEN "a" ELSE c

EqualFold(a, b) ==
  /\ Len(a) = Len(b)
  /\ \A i \in 1..Len(a) : Lower(a[i]) = Lower(b[i])

\* a JSON value decoded into a Go string: null leaves the zero value
StringOk(v) == v.t \in {"string", "null"}

StringOf(v) == IF v.t = "string" THEN v.s ELSE <<>>

\* a JSON value decoded into map[string]string: null leaves the map nil,
\* an object gives one entry per member, anything else is a type error
MapOk(v) ==
  \/ v.t = "null"
  \/ v.t = "object" /\ \A k \in DOMAIN v.m : StringOk(v.m[k])

MapOf(v) ==
  IF v.t = "object" THEN [k \in DOMAIN v.m |-> StringOf(v.m[k])] ELSE EmptyMap

\* the members of an object that the field Assets takes
AssetsMembers(v) == {k \in DOMAIN v.m : EqualFold(k, AssetsKey)}

\* a JSON value decoded into AssetManifest: null and an object without the
\* key leave the struct as it is, other keys are ignored
ManifestOk(v) ==
  \/ v.t = "null"
  \/ v.t = "object" /\ \A k \in AssetsMembers(v) : MapOk(v.m[k])

ManifestOf(v) ==
  IF v.t = "object" /\ AssetsMembers(v) # {}
    THEN MapOf(v.m[CHOOSE k \in AssetsMembers(v) : TRUE])
  ELSE EmptyMap

\* json.NewDecoder(file).Decode(&manifest): the first JSON value of the
\* file is decoded, what follows it is not read
DecodeOk(node) ==
  /\ node.kind = "json"
  /\ node.doc.syntax \in {"ok", "trailing"}
  /\ ManifestOk(node.doc.v)

Decode(node) == ManifestOf(node.doc.v)

Mount == <<"/", "d", "i", "s", "t">>

NoLoader == [made |-> FALSE, manifest |-> EmptyMap]

\* the manifest is not consulted
PathNoLookup(assets, assetPath) == Join(Mount, assetPath)

\* Loader.Path on the loader's manifest
Path(assets, assetPath) ==
  IF assetPath \in DOMAIN assets
    THEN Join(Mount, assets[assetPath])
  ELSE Join(Mount, assetPath)

\* ------------------------------------------------------------------------
\* Inputs of the model
\* ------------------------------------------------------------------------
Src == <<"s", "r", "c">>

Dist == <<"d", "i", "s", "t">>

\* the -source and -output flags: apart, equal (the defaults), the output
\* inside the source, the source inside the output
Flags ==
  { [source |-> Src, output |-> Dist],
    [source |-> Src, output |-> Src],
    [source |-> Src, output |-> Src \o <<"/">> \o Dist],
    [source |-> Dist \o <<"/">> \o Src, output |-> Dist] }

AJs == <<"a", ".", "j", "s">>

ZCss == <<"z", ".", "c", "s", "s">>

\* a file without extension in a directory whose name has a dot
DotDirFile == <<"x", ".", "d", "/", "n">>

FileNames == {AJs, ZCss, DotDirFile}

\* JavaScript with blanks, a file without blanks, text that is no JavaScript
Spaced == <<"x", " ">>

Plain == <<"y">>

Broken == <<"!">>

Contents == {Spaced, Plain, Broken}

\* the mapped name of the tests' manifest
Mapped == <<"a", "-", "1", "2", "3", "4", "5", "6", "7", "8", ".", "j", "s">>

UpDir == <<".", ".", "/", "x">>

Unknown == <<"u", ".", "j", "s">>

Rooted == <<"/", "e">>

OtherKey == <<"o">>

\* the arguments of Loader.Path: a key, a name that is no key, the empty
\* string, a path that climbs, a rooted path
AssetPaths == {AJs, Unknown, <<>>, UpDir, Rooted}

One(k, v) == MapPut(EmptyMap, k, v)

TestAssets == JObject(One(AJs, JString(Mapped)))

\* what manifest.json may hold when a loader is made from it
ManifestDocs ==
  { [syntax |-> "ok", v |-> JObject(One(AssetsKey, TestAssets))],
    [syntax |-> "ok", v |-> JObject(One(AssetsKey, JObject(One(AJs, JString(UpDir)))))],
    [syntax |-> "ok", v |-> JObject(One(AssetsKey, JObject(EmptyMap)))],
    [syntax |-> "ok", v |-> JObject(MapPut(One(AssetsKey, TestAssets), OtherKey, JNumber))],
    [syntax |-> "ok", v |-> JObject(One(<<"A", "s", "s", "e", "t", "s">>, TestAssets))],
    [syntax |-> "ok", v |-> JObject(EmptyMap)],
    [syntax |-> "ok", v |-> JObject(One(OtherKey, TestAssets))],
    [syntax |-> "ok", v |-> JObject(One(AssetsKey, JString(<<"n", "o">>)))],
    [syntax |-> "ok", v |-> JObject(One(AssetsKey, JArray))],
    [syntax |-> "ok", v |-> JObject(One(AssetsKey, JNull))],
    [syntax |-> "ok", v |-> JObject(One(AssetsKey, JObject(One(AJs, JNumber))))],
    [syntax |-> "ok", v |-> JObject(One(AssetsKey, JObject(One(AJs, JNull))))],
    [syntax |-> "ok", v |-> JNull],
    [syntax |-> "ok", v |-> JArray],
    [syntax |-> "bad", v |-> JNull],
    [syntax |-> "trailing", v |-> JObject(One(AssetsKey, TestAssets))] }

\* the file sources of a loader: no manifest.json, an empty one, or one
\* holding a document
LoaderFiles ==
  {EmptyMap, One(ManifestName, BytesNode(<<>>))}
    \cup {One(ManifestName, JsonNode(d)) : d \in ManifestDocs}

\* the source trees a behaviour starts from: no file, or one file of each
\* kind, two of them with the same bytes
SourceFiles ==
  { EmptyMap,
    MapPut(MapPut(MapPut(EmptyMap, AJs, Spaced), ZCss, Spaced), DotDirFile, Plain) }

\* ------------------------------------------------------------------------
\* State
\* ------------------------------------------------------------------------
VARIABLES
  sourceDir,   \* the -source flag
  outputDir,   \* the -output flag
  fs,          \* the file tree
  pc,          \* "idle", "walking", "writing", "done" or "failed"
  manifest,    \* manifest.Assets of the run
  stack,       \* filepath.Walk: the directories entered, with the names left
  cur,         \* the locals of the callback for the file being processed
  err,         \* what processAssets returned, "nil" for no error
  nruns,       \* the runs started
  nedits,      \* the changes made to the source tree by other programs
  startTree,   \* history: the source tree when the run started
  hashed,      \* history: the bytes this run hashed, by relative path
  written,     \* history: the output files this run wrote, with their bytes
  copied,      \* history: the bytes this run read to write them, by relative path
  failedAt,    \* history: the relative path at which this run failed
  last,        \* history: the result of the latest completed run
  prev,        \* history: the result of the completed run before it
  loader,      \* the Loader that NewLoader returned, if it returned one
  loadErr,     \* the error that NewLoader returned, "nil" for none
  loadedFrom,  \* history: the file tree NewLoader was given
  calls,       \* history: the calls of Path, each with what it returned
  frames,      \* the locals of the Path call each goroutine is in
  umask,       \* the file mode creation mask of the process
  dest,        \* the file at the destination of writeMinifiedFile
  wrote        \* what writeMinifiedFile returned, "none" before the call

pipeVars ==
  <<sourceDir, outputDir, fs, pc, manifest, stack, cur, err, nruns, nedits,
    startTree, hashed, written, copied, failedAt, last, prev>>

loaderVars == <<loader, loadErr, loadedFrom, calls, frames>>

writeVars == <<umask, dest, wrote>>

vars == <<pipeVars, loaderVars, writeVars>>

NoCur ==
  [path |-> <<>>, relPath |-> <<>>, hash |-> <<>>, ext |-> <<>>,
   fingerprintedName |-> <<>>, outputPath |-> <<>>]

NoPath == <<>>

Between == pc \in {"idle", "done", "failed"}

\* a run has ended and the next has not started
AfterRun == pc \in {"done", "failed"}

\* the failures the operating system may make a step end with
FaultChoices(kinds) == {"none"} \cup kinds

NoResult ==
  [src |-> EmptyMap, hashed |-> EmptyMap, manifest |-> EmptyMap, out |-> EmptyMap,
   run |-> 0]

\* the file tree that holds, below directory d, the given files
RECURSIVE Populate(_, _, _)
Populate(f, d, files) ==
  IF DOMAIN files = {} THEN MkdirAll(f, d)
  ELSE LET name == CHOOSE n \in DOMAIN files : TRUE
           path == Join(d, name)
       IN  Populate(PutNode(MkdirAll(f, Dir(path)), path, BytesNode(files[name])),
                    d, Restrict(files, DOMAIN files \ {name}))

\* the walk returns from the directories that have no name left
RECURSIVE Unwind(_)
Unwind(st) ==
  IF st = <<>> THEN st
  ELSE IF st[Len(st)].names = <<>> THEN Unwind(SubSeq(st, 1, Len(st) - 1))
  ELSE st

NoTree == "none"

\* a goroutine that is not inside Path
NoFrame == [pc |-> "idle", assetPath |-> <<>>, fingerprinted |-> <<>>, ok |-> FALSE]

Goroutines == 1..MaxGoroutines

InitLoaderVars ==
  /\ loader = NoLoader
  /\ loadErr = "nil"
  /\ loadedFrom = NoTree
  /\ calls = <<>>
  /\ frames = [g \in Goroutines |-> NoFrame]

\* no file at the destination
NoFile == [dir |-> TRUE, exists |-> FALSE, mode |-> 0, bytes |-> <<>>]

\* the usual mask: group and others may not write
DefaultUmask == 18

InitWriteVars ==
  /\ umask = DefaultUmask
  /\ dest = NoFile
  /\ wrote = "none"

Init ==
  /\ \E fl \in Flags, files \in SourceFiles :
       /\ sourceDir = fl.source
       /\ outputDir = fl.output
       /\ fs = Populate(EmptyMap, fl.source, files)
  /\ pc = "idle"
  /\ manifest = EmptyMap
  /\ stack = <<>>
  /\ cur = NoCur
  /\ err = "nil"
  /\ nruns = 0
  /\ nedits = 0
  /\ startTree = EmptyMap
  /\ hashed = EmptyMap
  /\ written = EmptyMap
  /\ copied = EmptyMap
  /\ failedAt = NoPath
  /\ last = NoResult
  /\ prev = NoResult
  /\ InitLoaderVars
  /\ InitWriteVars

\* ------------------------------------------------------------------------
\* Other programs: the source tree changes between runs
\* ------------------------------------------------------------------------
\* the process of the earlier run has exited: nothing of it is left but the
\* files it wrote
Exited ==
  /\ pc' = "idle"
  /\ manifest' = EmptyMap
  /\ err' = "nil"
  /\ startTree' = EmptyMap
  /\ hashed' = EmptyMap
  /\ written' = EmptyMap
  /\ copied' = EmptyMap
  /\ failedAt' = NoPath
  /\ last' = NoResult
  /\ prev' = NoResult

EditSource(name, bytes) ==
  LET path == Join(sourceDir, name)
  IN  /\ AfterRun
      /\ nedits < MaxEdits
      /\ MkdirAllOk(fs, Dir(path))
      /\ ~IsDir(fs, path)
      /\ fs' = PutNode(MkdirAll(fs, Dir(path)), path, BytesNode(bytes))
      /\ fs' # fs
      /\ nedits' = nedits + 1
      /\ Exited
      /\ UNCHANGED <<sourceDir, outputDir, stack, cur, nruns, loaderVars, writeVars>>

DeleteSource(name) ==
  LET path == Join(sourceDir, name)
  IN  /\ AfterRun
      /\ nedits < MaxEdits
      /\ IsFile(fs, path)
      /\ fs' = Restrict(fs, DOMAIN fs \ {path})
      /\ nedits' = nedits + 1
      /\ Exited
      /\ UNCHANGED <<sourceDir, outputDir, stack, cur, nruns, loaderVars, writeVars>>

\* ------------------------------------------------------------------------
\* processAssets
\* ------------------------------------------------------------------------
\* every error of the walk and of its callback is returned wrapped in this
WalkErr == "failed to process assets"

\* the failing file is skipped and the walk goes on
SkipFile(f, msg, at) ==
  /\ fs' = f
  /\ pc' = "walking"
  /\ err' = msg
  /\ failedAt' = at
  /\ stack' = IF pc = "walking"
                THEN Unwind([stack EXCEPT ![Len(stack)].names = Tail(@)])
              ELSE stack
  /\ cur' = NoCur

\* the run ends with an error after it has written the manifest of the
\* files recorded so far
AbortFlush(f, msg, at) ==
  /\ fs' = IF IsDir(f, outputDir)
             THEN PutNode(f, Join(outputDir, ManifestName), JsonNode(Encode(manifest)))
           ELSE f
  /\ pc' = "failed"
  /\ err' = msg
  /\ failedAt' = at
  /\ stack' = <<>>
  /\ cur' = NoCur

\* the run ends with an error: processAssets returns it, main exits
Abort(f, msg, at) ==
  /\ fs' = f
  /\ pc' = "failed"
  /\ err' = msg
  /\ failedAt' = at
  /\ stack' = <<>>
  /\ cur' = NoCur

\* os.RemoveAll(outputDir), os.MkdirAll(outputDir), and the start of
\* filepath.Walk: Lstat of the root and the names of its entries
ProcessAssets(fault) ==
  /\ Between
  /\ nruns < MaxRuns
  /\ nruns' = nruns + 1
  /\ manifest' = EmptyMap
  /\ hashed' = EmptyMap
  /\ written' = EmptyMap
  /\ copied' = EmptyMap
  /\ startTree' = Tree(fs, sourceDir)
  /\ UNCHANGED <<sourceDir, outputDir, nedits, last, prev, loaderVars, writeVars>>
  /\ IF fault = "remove"
       THEN Abort(fs, "failed to remove dist directory", NoPath)
     ELSE LET f1 == RemoveAll(fs, outputDir)
          IN  IF fault = "mkdir" \/ ~MkdirAllOk(f1, outputDir)
                THEN Abort(f1, "failed to create output directory", NoPath)
              ELSE LET f2 == MkdirAll(f1, outputDir)
                   IN  IF ~IsDir(f2, sourceDir)
                         THEN Abort(f2, WalkErr, NoPath)
                       ELSE /\ fs' = f2
                            /\ pc' = "walking"
                            /\ err' = "nil"
                            /\ failedAt' = NoPath
                            /\ cur' = NoCur
                            /\ stack' =
                                 Unwind(<<[dir |-> sourceDir,
                                           names |-> ReadDirNames(f2, sourceDir)]>>)

\* the bytes hashed so far, after the walk has taken its next entry
HashedAfter(fault) ==
  LET top == stack[Len(stack)]
      path == Join(top.dir, Head(top.names))
  IN  IF IsFile(fs, path) /\ fault # "hash"
        THEN MapPut(hashed, Rel(sourceDir, path), fs[path].bytes)
      ELSE hashed

\* one entry of the walk: a directory is entered, for a file the callback
\* runs up to the creation of the output directory
WalkFn(fault) ==
  /\ pc = "walking"
  /\ stack # <<>>
  /\ UNCHANGED <<sourceDir, outputDir, manifest, nruns, nedits, startTree,
                 written, copied, last, prev, loaderVars, writeVars>>
  /\ hashed' = HashedAfter(fault)
  /\ LET top == stack[Len(stack)]
         path == Join(top.dir, Head(top.names))
         rest == [stack EXCEPT ![Len(stack)].names = Tail(top.names)]
         relPath == Rel(sourceDir, path)
     IN  IF ~Exists(fs, path)
           THEN Abort(fs, WalkErr, relPath)
         ELSE IF IsDir(fs, path)
           THEN /\ stack' =
                     Unwind(Append(rest, [dir |-> path,
                                          names |-> ReadDirNames(fs, path)]))
                /\ UNCHANGED <<fs, pc, cur, err, failedAt>>
         ELSE IF fault = "hash"
           THEN Abort(fs, WalkErr, relPath)
         ELSE LET hash == CalculateFileHash(fs, path)
                  ext == Ext(relPath)
                  fingerprintedName == FingerprintedName(relPath, hash)
                  outputPath == Join(outputDir, fingerprintedName)
                  dir == Dir(outputPath)
              IN  IF fault = "mkdir" \/ ~MkdirAllOk(fs, dir)
                    THEN Abort(fs, WalkErr, relPath)
                  ELSE /\ fs' = MkdirAll(fs, dir)
                       /\ pc' = "writing"
                       /\ stack' = Unwind(rest)
                       /\ cur' = [path |-> path, relPath |-> relPath,
                                  hash |-> hash, ext |-> ext,
                                  fingerprintedName |-> fingerprintedName,
                                  outputPath |-> outputPath]
                       /\ UNCHANGED <<err, failedAt>>

\* the rest of the callback: read, minify, write, record in the manifest
WriteAsset(fault) ==
  /\ pc = "writing"
  /\ UNCHANGED <<sourceDir, outputDir, nruns, nedits, startTree, hashed, last,
                 prev, loaderVars, writeVars>>
  /\ IF fault = "read" \/ ~IsFile(fs, cur.path)
       THEN /\ Abort(fs, WalkErr, cur.relPath)
            /\ UNCHANGED <<manifest, written, copied>>
     ELSE LET sourceCode == fs[cur.path].bytes
          IN  IF cur.ext = JsExt /\ ~MinifyOk(sourceCode)
                THEN /\ Abort(fs, WalkErr, cur.relPath)
                     /\ UNCHANGED <<manifest, written, copied>>
              ELSE IF fault = "create" \/ ~CreateOk(fs, cur.outputPath)
                THEN /\ Abort(fs, WalkErr, cur.relPath)
                     /\ UNCHANGED <<manifest, written, copied>>
              ELSE IF fault = "write"
                THEN /\ Abort(PutNode(fs, cur.outputPath, BytesNode(<<>>)),
                              WalkErr, cur.relPath)
                     /\ UNCHANGED <<manifest, written, copied>>
              ELSE LET out == Transform(cur.ext, sourceCode)
                   IN  /\ fs' = PutNode(fs, cur.outputPath, BytesNode(out))
                       /\ manifest' = MapPut(manifest, cur.relPath, cur.fingerprintedName)
                       /\ written' = MapPut(written, cur.outputPath, out)
                       /\ copied' = MapPut(copied, cur.relPath, sourceCode)
                       /\ pc' = "walking"
                       /\ cur' = NoCur
                       /\ UNCHANGED <<stack, err, failedAt>>

\* after the walk: manifest.json is created and the manifest encoded into it
WriteManifest(fault) ==
  /\ pc = "walking"
  /\ stack = <<>>
  /\ UNCHANGED <<sourceDir, outputDir, manifest, nruns, nedits, startTree,
                 hashed, written, copied, loaderVars, writeVars>>
  /\ LET manifestPath == Join(outputDir, ManifestName)
     IN  IF fault = "create" \/ ~CreateOk(fs, manifestPath)
           THEN /\ Abort(fs, "failed to create manifest file", NoPath)
                /\ UNCHANGED <<last, prev>>
         ELSE IF fault = "write"
           THEN /\ Abort(PutNode(fs, manifestPath, BytesNode(<<>>)),
                         "failed to write manifest", NoPath)
                /\ UNCHANGED <<last, prev>>
         ELSE /\ fs' = PutNode(fs, manifestPath, JsonNode(Encode(manifest)))
              /\ pc' = "done"
              /\ last' = [src |-> startTree, hashed |-> hashed,
                           manifest |-> manifest,
                           out |-> Tree(fs', outputDir), run |-> nruns]
              /\ prev' = last
              /\ UNCHANGED <<stack, cur, err, failedAt>>

Next ==
  \/ \E name \in FileNames, bytes \in Contents : EditSource(name, bytes)
  \/ \E name \in FileNames : DeleteSource(name)
  \/ \E fault \in FaultChoices({"remove", "mkdir"}) : ProcessAssets(fault)
  \/ \E fault \in FaultChoices({"hash", "mkdir"}) : WalkFn(fault)
  \/ \E fault \in FaultChoices({"read", "create", "write"}) : WriteAsset(fault)
  \/ \E fault \in FaultChoices({"create", "write"}) : WriteManifest(fault)

Spec == Init /\ [][Next]_vars

\* ------------------------------------------------------------------------
\* Properties of the pipeline
\* ------------------------------------------------------------------------
\* the flags name directories that do not contain one another
Apart ==
  /\ sourceDir # outputDir
  /\ ~Under(sourceDir, outputDir)
  /\ ~Under(outputDir, sourceDir)

\* the hash of the bytes of a file node, as calculateFileHash returns it
HashOfNode(node) == Hex(Sum(node.bytes))

\* the characters between the base and the extension of a fingerprinted
\* name, after the "-"
Fragment(relPath, name) ==
  LET ext == Ext(relPath)
      base == TrimSuffix(relPath, ext)
  IN  SubSeq(name, Len(base) + 2, Len(name) - Len(ext))

\* the files below the output directory, by relative path
OutputFiles == DOMAIN Tree(fs, outputDir)

\* C1: after a successful run the manifest has exactly one entry per file
\* of the source tree, keyed by its relative path, and every value names a
\* file that exists under the output directory.
C1_ManifestComplete ==
  pc = "done" =>
    /\ DOMAIN manifest = DOMAIN startTree
    /\ \A k \in DOMAIN manifest : IsFile(fs, Join(outputDir, manifest[k]))

\* What the code does give for C1: the same, for flags that are apart.
ManifestCompleteApart == Apart => C1_ManifestComplete

\* C2: for any flags, every key of the manifest of a successful run is a
\* file that was in the source tree when the run started, and the file at
\* the mapped place holds that file's bytes, as they are or minified.
C2_KeysAreSourceFiles ==
  pc = "done" =>
    \A k \in DOMAIN manifest :
      /\ k \in DOMAIN startTree
      /\ IsFile(fs, Join(outputDir, manifest[k]))
      /\ fs[Join(outputDir, manifest[k])].bytes
           \in {startTree[k].bytes, MinifySource(startTree[k].bytes)}

KeysAreSourceFilesApart == Apart => C2_KeysAreSourceFiles

\* C3: after a successful run, whatever the output directory held before,
\* it holds manifest.json and one fingerprinted file per file of the source
\* tree, and nothing else; the manifest has no other entry either.
C3_NoLeftovers ==
  pc = "done" =>
    /\ OutputFiles =
         {ManifestName} \cup
           {FingerprintedName(r, HashOfNode(startTree[r])) : r \in DOMAIN startTree}
    /\ DOMAIN manifest = DOMAIN startTree
    /\ fs[Join(outputDir, ManifestName)] = JsonNode(Encode(manifest))

NoLeftoversApart == Apart => C3_NoLeftovers

\* C4: the result of a run is a function of the source content. Two
\* completed runs on the same source tree give the same manifest and the
\* same output files; within a run and across the two runs, files with the
\* same bytes get the same hash fragment, whatever their paths; and each
\* manifest value is the name computed from the key and the bytes alone.
C4_Deterministic ==
  /\ (prev.run > 0 /\ prev.src = last.src) =>
       (prev.manifest = last.manifest /\ prev.out = last.out)
  /\ \A a \in {prev, last} : \A b \in {prev, last} :
       \A j \in DOMAIN a.manifest : \A k \in DOMAIN b.manifest :
         a.hashed[j] = b.hashed[k] =>
           Fragment(j, a.manifest[j]) = Fragment(k, b.manifest[k])
  /\ \A k \in DOMAIN last.manifest :
       /\ k \in DOMAIN last.hashed
       /\ HasPrefix(Hex(Sum(last.hashed[k])), Fragment(k, last.manifest[k]))
       /\ Fragment(k, last.manifest[k]) # <<>>

\* two completed runs on the same tree, in which two files have the same
\* bytes and a third has other bytes
C4_Witness ==
  /\ prev.run > 0
  /\ prev.src = last.src
  /\ \E j \in DOMAIN last.manifest : \E k \in DOMAIN last.manifest :
       /\ j # k
       /\ last.hashed[j] = last.hashed[k]
  /\ \E j \in DOMAIN last.manifest : \E k \in DOMAIN last.manifest :
       last.hashed[j] # last.hashed[k]

\* C5: the bytes written for a processed file are the minifier's output
\* when its extension is exactly ".js", and the source bytes unchanged for
\* any other extension, a missing extension included.
C5_TransformPolicy ==
  \A k \in DOMAIN manifest :
    LET source == fs[Join(sourceDir, k)].bytes
        output == fs[Join(outputDir, manifest[k])].bytes
    IN  /\ IsFile(fs, Join(sourceDir, k))
        /\ IsFile(fs, Join(outputDir, manifest[k]))
        /\ Ext(k) = JsExt => output = MinifySource(source)
        /\ Ext(k) # JsExt => output = source

\* a completed run with a minified script, a style sheet with a blank that
\* is kept, and a file without extension
C5_Witness ==
  /\ pc = "done"
  /\ \E k \in DOMAIN manifest :
       /\ Ext(k) = JsExt
       /\ fs[Join(outputDir, manifest[k])].bytes # fs[Join(sourceDir, k)].bytes
  /\ \E k \in DOMAIN manifest :
       /\ Ext(k) = <<".", "c", "s", "s">>
       /\ fs[Join(outputDir, manifest[k])].bytes = Spaced
  /\ \E k \in DOMAIN manifest : Ext(k) = <<>>

\* the width of the hex string of a 64-bit hash
Hash64Width == 16

\* C6: calculateFileHash returns a hex string of exactly 16 characters.
C6_HashIs16Chars == pc = "writing" => Len(cur.hash) = Hash64Width

\* C7: the fragment in a fingerprinted name is the complete string that
\* calculateFileHash returned, not a prefix of it.
C7_FullHashInName ==
  pc = "writing" => Fragment(cur.relPath, cur.fingerprintedName) = cur.hash

\* the order in which the walk reaches two files: by the first element of
\* their paths that differs
RECURSIVE SegsBefore(_, _)
SegsBefore(a, b) ==
  IF a = <<>> \/ b = <<>> THEN a = <<>> /\ b # <<>>
  ELSE IF Head(a) = Head(b) THEN SegsBefore(Tail(a), Tail(b))
  ELSE StrLess(Head(a), Head(b))

WalkBefore(p, q) == SegsBefore(Split(p), Split(q))

\* C8: a failure while a file is processed ends the run at once with an
\* error: no step of the run remains, manifest.json is not written, the
\* manifest holds only files the walk reached before the failing one, and
\* what was written before the failure is still in place.
C8_FailFast ==
  failedAt # NoPath =>
    /\ pc = "failed"
    /\ err # "nil"
    /\ stack = <<>>
    /\ cur = NoCur
    /\ ~Exists(fs, Join(outputDir, ManifestName))
    /\ failedAt \notin DOMAIN manifest
    /\ \A k \in DOMAIN manifest : WalkBefore(k, failedAt)
    /\ DOMAIN written = {Join(outputDir, manifest[k]) : k \in DOMAIN manifest}
    /\ \A p \in DOMAIN written : IsFile(fs, p) /\ fs[p].bytes = written[p]

\* a run that failed at a file after it had written another, with a file
\* of the source tree left that the walk had not reached
C8_Witness ==
  /\ failedAt # NoPath
  /\ DOMAIN written # {}
  /\ \E r \in DOMAIN startTree :
       /\ WalkBefore(failedAt, r)
       /\ r \notin DOMAIN manifest

\* ------------------------------------------------------------------------
\* The resolver's operations
\* ------------------------------------------------------------------------
\* NewLoader(filesys, manifestPath), filesys being the file tree below root
NewLoader(root, manifestPath) ==
  /\ ~loader.made
  /\ loadErr = "nil"
  /\ loadedFrom' = Tree(fs, root)
  /\ LET path == Join(root, manifestPath)
     IN  IF ~Exists(fs, path)
           THEN loader' = NoLoader /\ loadErr' = "open"
         ELSE IF ~DecodeOk(fs[path])
           THEN loader' = NoLoader /\ loadErr' = "decode"
         ELSE /\ loader' = [made |-> TRUE, manifest |-> Decode(fs[path])]
              /\ loadErr' = "nil"
  /\ UNCHANGED <<pipeVars, calls, frames, writeVars>>

\* l.Path(assetPath)
PathCall(assetPath) ==
  /\ loader.made
  /\ Len(calls) < MaxCalls
  /\ calls' = Append(calls, [assetPath |-> assetPath,
                              returned |-> Path(loader.manifest, assetPath)])
  /\ UNCHANGED <<pipeVars, loader, loadErr, loadedFrom, frames, writeVars>>

\* ------------------------------------------------------------------------
\* Build, then serve: a loader made from what a run has written
\* ------------------------------------------------------------------------
\* a file whose name holds a byte that is no valid UTF-8
RawName == <<"n", InvalidByte>>

SiteFiles == SourceFiles \cup {MapPut(MapPut(EmptyMap, AJs, Spaced), RawName, Plain)}

SitePaths == FileNames \cup {RawName}

InitSite ==
  /\ \E fl \in Flags, files \in SiteFiles :
       /\ sourceDir = fl.source
       /\ outputDir = fl.output
       /\ fs = Populate(EmptyMap, fl.source, files)
  /\ pc = "idle"
  /\ manifest = EmptyMap
  /\ stack = <<>>
  /\ cur = NoCur
  /\ err = "nil"
  /\ nruns = 0
  /\ nedits = 0
  /\ startTree = EmptyMap
  /\ hashed = EmptyMap
  /\ written = EmptyMap
  /\ copied = EmptyMap
  /\ failedAt = NoPath
  /\ last = NoResult
  /\ prev = NoResult
  /\ InitLoaderVars
  /\ InitWriteVars

\* the loader has not been asked for yet
Building == ~loader.made /\ loadErr = "nil"

\* pipeline runs come first; when one has succeeded the loader is made from
\* the output directory and asked for source paths
NextSite ==
  \/ Building /\ \E fault \in FaultChoices({"remove", "mkdir"}) : ProcessAssets(fault)
  \/ Building /\ \E fault \in FaultChoices({"hash", "mkdir"}) : WalkFn(fault)
  \/ Building /\ \E fault \in FaultChoices({"read", "create", "write"}) : WriteAsset(fault)
  \/ Building /\ \E fault \in FaultChoices({"create", "write"}) : WriteManifest(fault)
  \/ pc = "done" /\ NewLoader(outputDir, ManifestName)
  \/ \E assetPath \in SitePaths : PathCall(assetPath)

SpecSite == InitSite /\ [][NextSite]_vars

\* a loader made from a file source that the pipeline did not write
InitLoader ==
  /\ sourceDir = Src
  /\ outputDir = Dist
  /\ \E files \in LoaderFiles :
       fs = [p \in {Dist} \cup {Join(Dist, n) : n \in DOMAIN files} |->
               IF p = Dist THEN DirNode ELSE files[Rel(Dist, p)]]
  /\ pc = "idle"
  /\ manifest = EmptyMap
  /\ stack = <<>>
  /\ cur = NoCur
  /\ err = "nil"
  /\ nruns = 0
  /\ nedits = 0
  /\ startTree = EmptyMap
  /\ hashed = EmptyMap
  /\ written = EmptyMap
  /\ copied = EmptyMap
  /\ failedAt = NoPath
  /\ last = NoResult
  /\ prev = NoResult
  /\ InitLoaderVars
  /\ InitWriteVars

NextLoader ==
  \/ NewLoader(outputDir, ManifestName)
  \/ \E assetPath \in AssetPaths : PathCall(assetPath)

SpecLoader == InitLoader /\ [][NextLoader]_vars

\* ------------------------------------------------------------------------
\* The pipeline while another process writes to the source files
\* ------------------------------------------------------------------------
\* another process overwrites a source file during a run
ModifySource(name, bytes) ==
  LET path == Join(sourceDir, name)
  IN  /\ pc \in {"walking", "writing"}
      /\ nedits < MaxEdits
      /\ IsFile(fs, path)
      /\ fs[path].bytes # bytes
      /\ fs' = PutNode(fs, path, BytesNode(bytes))
      /\ nedits' = nedits + 1
      /\ UNCHANGED <<sourceDir, outputDir, pc, manifest, stack, cur, err, nruns,
                     startTree, hashed, written, copied, failedAt, last, prev,
                     loaderVars, writeVars>>

\* a source tree and an output directory that are apart
InitRace ==
  /\ sourceDir = Src
  /\ outputDir = Dist
  /\ \E files \in SourceFiles : fs = Populate(EmptyMap, Src, files)
  /\ pc = "idle"
  /\ manifest = EmptyMap
  /\ stack = <<>>
  /\ cur = NoCur
  /\ err = "nil"
  /\ nruns = 0
  /\ nedits = 0
  /\ startTree = EmptyMap
  /\ hashed = EmptyMap
  /\ written = EmptyMap
  /\ copied = EmptyMap
  /\ failedAt = NoPath
  /\ last = NoResult
  /\ prev = NoResult
  /\ InitLoaderVars
  /\ InitWriteVars

NextRace ==
  \/ \E name \in FileNames, bytes \in Contents : ModifySource(name, bytes)
  \/ \E fault \in FaultChoices({"remove", "mkdir"}) : ProcessAssets(fault)
  \/ \E fault \in FaultChoices({"hash", "mkdir"}) : WalkFn(fault)
  \/ \E fault \in FaultChoices({"read", "create", "write"}) : WriteAsset(fault)
  \/ \E fault \in FaultChoices({"create", "write"}) : WriteManifest(fault)

SpecRace == InitRace /\ [][NextRace]_vars

\* ------------------------------------------------------------------------
\* The pipeline on source trees whose names resemble fingerprinted names
\* ------------------------------------------------------------------------
\* the fragment a file holding Plain gets
PlainFragment == SubSeq(Hex(Sum(Plain)), 1, HashPrefixLen)

NoExt == <<"a">>

\* names that are the fingerprinted names of NoExt and of AJs
LikeNoExt == NoExt \o <<"-">> \o PlainFragment

LikeAJs == NoExt \o <<"-">> \o PlainFragment \o JsExt

\* a name that ends in a dot, one with two dots, one that begins with its
\* only dot, and a source file called manifest.json
EndsInDot == <<"a", ".">>

TwoDots == <<"a", ".", "b", ".", "j", "s">>

DotFile == <<".", "j", "s">>

NameFiles ==
  {NoExt, LikeNoExt, AJs, LikeAJs, EndsInDot, TwoDots, DotFile, DotDirFile,
   ManifestName}

\* all these files with the same bytes, and the trees that lack one of them
NameTrees ==
  {[n \in NameFiles \ skip |-> Plain] : skip \in {{}} \cup {{n} : n \in NameFiles}}

InitNames ==
  /\ sourceDir = Src
  /\ outputDir = Dist
  /\ \E files \in NameTrees : fs = Populate(EmptyMap, Src, files)
  /\ pc = "idle"
  /\ manifest = EmptyMap
  /\ stack = <<>>
  /\ cur = NoCur
  /\ err = "nil"
  /\ nruns = 0
  /\ nedits = 0
  /\ startTree = EmptyMap
  /\ hashed = EmptyMap
  /\ written = EmptyMap
  /\ copied = EmptyMap
  /\ failedAt = NoPath
  /\ last = NoResult
  /\ prev = NoResult
  /\ InitLoaderVars
  /\ InitWriteVars

NextNames ==
  \/ \E fault \in FaultChoices({"remove", "mkdir"}) : ProcessAssets(fault)
  \/ \E fault \in FaultChoices({"hash", "mkdir"}) : WalkFn(fault)
  \/ \E fault \in FaultChoices({"read", "create", "write"}) : WriteAsset(fault)
  \/ \E fault \in FaultChoices({"create", "write"}) : WriteManifest(fault)

SpecNames == InitNames /\ [][NextNames]_vars

\* ------------------------------------------------------------------------
\* writeMinifiedFile on its own
\* ------------------------------------------------------------------------
\* 0666, the permission os.Create asks for
CreateMode == 438

\* 0644, the permission writeMinifiedFile passes to os.WriteFile
FileMode == 420

\* bit i of a permission mode
Bit(n, i) == (n \div (2 ^ i)) % 2

\* perm &^ mask on the nine permission bits
RECURSIVE AndNotFrom(_, _, _)
AndNotFrom(perm, mask, i) ==
  IF i > 8 THEN 0
  ELSE Bit(perm, i) * (1 - Bit(mask, i)) * (2 ^ i) + AndNotFrom(perm, mask, i + 1)

AndNot(perm, mask) == AndNotFrom(perm, mask, 0)

\* the owner may open the file for writing; for reading and writing
OwnerWrite(mode) == Bit(mode, 7) = 1

OwnerReadWrite(mode) == Bit(mode, 8) = 1 /\ Bit(mode, 7) = 1

\* open(2) with O_CREAT|O_TRUNC: a file that exists is emptied and keeps
\* its mode, a file that does not is made with perm &^ umask
OpenTrunc(f, perm, mask) ==
  IF f.exists THEN [f EXCEPT !.bytes = <<>>]
  ELSE [dir |-> TRUE, exists |-> TRUE, mode |-> AndNot(perm, mask), bytes |-> <<>>]

\* os.Create(dst) succeeds: the directory is there and a file that exists
\* may be read and written
CreateAllowed(f) == f.dir /\ (f.exists => OwnerReadWrite(f.mode))

\* os.WriteFile(dst, src, perm) succeeds: a file that exists may be written
WriteAllowed(f) == f.dir /\ (f.exists => OwnerWrite(f.mode))

\* writeMinifiedFile(src, dst) by a process that is not the superuser
WriteMinifiedFile(src) ==
  /\ wrote = "none"
  /\ IF ~CreateAllowed(dest)
       THEN dest' = dest /\ wrote' = "error"
     ELSE LET destination == OpenTrunc(dest, CreateMode, umask)
          IN  IF ~WriteAllowed(destination)
                THEN dest' = destination /\ wrote' = "error"
              ELSE /\ dest' = [OpenTrunc(destination, FileMode, umask)
                                 EXCEPT !.bytes = src]
                   /\ wrote' = "nil"
  /\ UNCHANGED <<pipeVars, loaderVars, umask>>

\* masks 000, 002, 022, 027 and 077
Umasks == {0, 2, 18, 23, 63}

\* modes 0644, 0664, 0600, 0755 and 0444 of a file that is already there
OldModes == {420, 436, 384, 493, 292}

\* what is at dst before the call: nothing in a missing directory, nothing
\* in an existing one, or a file
Destinations ==
  {[NoFile EXCEPT !.dir = FALSE], NoFile}
    \cup {[dir |-> TRUE, exists |-> TRUE, mode |-> m, bytes |-> b] :
            m \in OldModes, b \in Contents}

InitWrite ==
  /\ sourceDir = Src
  /\ outputDir = Dist
  /\ fs = EmptyMap
  /\ pc = "idle"
  /\ manifest = EmptyMap
  /\ stack = <<>>
  /\ cur = NoCur
  /\ err = "nil"
  /\ nruns = 0
  /\ nedits = 0
  /\ startTree = EmptyMap
  /\ hashed = EmptyMap
  /\ written = EmptyMap
  /\ copied = EmptyMap
  /\ failedAt = NoPath
  /\ last = NoResult
  /\ prev = NoResult
  /\ InitLoaderVars
  /\ umask \in Umasks
  /\ dest \in Destinations
  /\ wrote = "none"

NextWrite == \E src \in Contents : WriteMinifiedFile(src)

SpecWrite == InitWrite /\ [][NextWrite]_vars

\* ------------------------------------------------------------------------
\* Path called from several goroutines while a pipeline rewrites the files
\* ------------------------------------------------------------------------
\* the Path calls that have been started
Started == Len(calls) + Cardinality({g \in Goroutines : frames[g].pc = "looked"})

\* a lookup that opens and decodes manifest.json again
PathLookupReread(g, assetPath) ==
  LET path == Join(outputDir, ManifestName)
      assets == IF Exists(fs, path) /\ DecodeOk(fs[path])
                  THEN Decode(fs[path])
                ELSE EmptyMap
  IN  /\ loader.made
      /\ frames[g].pc = "idle"
      /\ Started < MaxCalls
      /\ frames' = [frames EXCEPT ![g] =
                      [pc |-> "looked", assetPath |-> assetPath,
                       ok |-> assetPath \in DOMAIN assets,
                       fingerprinted |-> IF assetPath \in DOMAIN assets
                                           THEN assets[assetPath]
                                         ELSE <<>>]]
      /\ UNCHANGED <<pipeVars, loader, loadErr, loadedFrom, calls, writeVars>>

\* fingerprinted, ok := l.manifest.Assets[assetPath]: a read of the map,
\* which no code writes after NewLoader has returned
PathLookup(g, assetPath) ==
  /\ loader.made
  /\ frames[g].pc = "idle"
  /\ Started < MaxCalls
  /\ frames' = [frames EXCEPT ![g] =
                  [pc |-> "looked", assetPath |-> assetPath,
                   ok |-> assetPath \in DOMAIN loader.manifest,
                   fingerprinted |-> IF assetPath \in DOMAIN loader.manifest
                                       THEN loader.manifest[assetPath]
                                     ELSE <<>>]]
  /\ UNCHANGED <<pipeVars, loader, loadErr, loadedFrom, calls, writeVars>>

\* the return of Path: filepath.Join of "/dist" and what the lookup gave
PathReturn(g) ==
  /\ frames[g].pc = "looked"
  /\ calls' = Append(calls,
                [assetPath |-> frames[g].assetPath,
                 returned |-> IF frames[g].ok
                                THEN Join(Mount, frames[g].fingerprinted)
                              ELSE Join(Mount, frames[g].assetPath)])
  /\ frames' = [frames EXCEPT ![g] = NoFrame]
  /\ UNCHANGED <<pipeVars, loader, loadErr, loadedFrom, writeVars>>

\* the arguments of the concurrent calls: a key and a name that is no key
ServePaths == {AJs, Unknown}

\* a served site: the output directory holds the tests' manifest, the
\* source directory is apart from it
InitServe ==
  /\ sourceDir = Src
  /\ outputDir = Dist
  /\ \E files \in SourceFiles :
       fs = Populate(PutNode(MkdirAll(EmptyMap, Dist), Join(Dist, ManifestName),
                             JsonNode([syntax |-> "ok",
                                       v |-> JObject(One(AssetsKey, TestAssets))])),
                     Src, files)
  /\ pc = "idle"
  /\ manifest = EmptyMap
  /\ stack = <<>>
  /\ cur = NoCur
  /\ err = "nil"
  /\ nruns = 0
  /\ nedits = 0
  /\ startTree = EmptyMap
  /\ hashed = EmptyMap
  /\ written = EmptyMap
  /\ copied = EmptyMap
  /\ failedAt = NoPath
  /\ last = NoResult
  /\ prev = NoResult
  /\ InitLoaderVars
  /\ InitWriteVars

\* the loader is made at any moment, goroutines call Path, and pipeline
\* runs delete and rewrite manifest.json meanwhile
NextServe ==
  \/ NewLoader(outputDir, ManifestName)
  \/ \E g \in Goroutines, assetPath \in ServePaths : PathLookup(g, assetPath)
  \/ \E g \in Goroutines : PathReturn(g)
  \/ \E fault \in FaultChoices({"remove", "mkdir"}) : ProcessAssets(fault)
  \/ \E fault \in FaultChoices({"hash", "mkdir"}) : WalkFn(fault)
  \/ \E fault \in FaultChoices({"read", "create", "write"}) : WriteAsset(fault)
  \/ \E fault \in FaultChoices({"create", "write"}) : WriteManifest(fault)

SpecServe == InitServe /\ [][NextServe]_vars

\* ------------------------------------------------------------------------
\* Properties of the resolver
\* ------------------------------------------------------------------------
\* C9: Path never fails; for a key of the loaded manifest it returns the
\* mount prefix /dist joined with the mapped name, for any other string the
\* mount prefix joined with that string. Joined: the prefix, a separator and
\* the name, cleaned as filepath.Join cleans its result.
C9_PathResolves ==
  \A i \in 1..Len(calls) :
    LET p == calls[i].assetPath
        target == IF p \in DOMAIN loader.manifest THEN loader.manifest[p] ELSE p
    IN  /\ loader.made
        /\ calls[i].returned = Clean(Mount \o <<"/">> \o target)
        /\ calls[i].returned # <<>>

\* a loader with the tests' manifest was asked for a key and for a name
\* that is no key
C9_Witness ==
  /\ loader.made
  /\ \E i \in 1..Len(calls) :
       /\ calls[i].assetPath = AJs
       /\ calls[i].returned = Mount \o <<"/">> \o Mapped
  /\ \E i \in 1..Len(calls) :
       /\ calls[i].assetPath = Unknown
       /\ calls[i].returned = Mount \o <<"/">> \o Unknown

\* NewLoader has returned, with a Loader or with an error
Returned == loader.made \/ loadErr # "nil"

ObjectOfStrings(v) == v.t = "object" /\ \A k \in DOMAIN v.m : v.m[k].t = "string"

\* the file source has no manifest.json, or it is not valid JSON, or the
\* value of its "assets" is not an object of strings
Unloadable(tree) ==
  \/ ManifestName \notin DOMAIN tree
  \/ tree[ManifestName].kind # "json"
  \/ tree[ManifestName].doc.syntax # "ok"
  \/ LET v == tree[ManifestName].doc.v
     IN  /\ v.t = "object"
         /\ AssetsKey \in DOMAIN v.m
         /\ ~ObjectOfStrings(v.m[AssetsKey])

\* C10: NewLoader returns an error and no Loader when the manifest file is
\* absent, is not valid JSON, or has an "assets" that is not an object of
\* strings; it returns either a Loader or an error, never both.
C10_LoadRejects ==
  Returned =>
    /\ loader.made <=> loadErr = "nil"
    /\ Unloadable(loadedFrom) => ~loader.made

\* What the code does give for C10: an error for a missing file, for a
\* file whose first JSON value is malformed or missing, and for an "assets"
\* that is a string, a number or an array, or an object with such a member.
Rejected(tree) ==
  \/ ManifestName \notin DOMAIN tree
  \/ tree[ManifestName].kind # "json"
  \/ tree[ManifestName].doc.syntax = "bad"
  \/ LET v == tree[ManifestName].doc.v
     IN  \/ v.t \notin {"object", "null"}
         \/ /\ v.t = "object"
            /\ AssetsKey \in DOMAIN v.m
            /\ v.m[AssetsKey].t # "null"
            /\ \/ v.m[AssetsKey].t # "object"
               \/ \E k \in DOMAIN v.m[AssetsKey].m :
                    v.m[AssetsKey].m[k].t \notin {"string", "null"}

LoadRejectsMalformed ==
  Returned =>
    /\ loader.made <=> loadErr = "nil"
    /\ Rejected(loadedFrom) => ~loader.made

\* manifest.json is a valid JSON object without the top-level key "assets"
AssetsMissing(tree) ==
  /\ ManifestName \in DOMAIN tree
  /\ tree[ManifestName].kind = "json"
  /\ tree[ManifestName].doc.syntax = "ok"
  /\ tree[ManifestName].doc.v.t = "object"
  /\ AssetsKey \notin DOMAIN tree[ManifestName].doc.v.m

\* C11: NewLoader returns an error and no Loader when manifest.json is a
\* valid JSON object in which the top-level key "assets" is missing.
C11_MissingAssetsRejected ==
  (Returned /\ AssetsMissing(loadedFrom)) => (~loader.made /\ loadErr # "nil")

\* the mapping decoded from the manifest.json NewLoader was given
Snapshot == Decode(loadedFrom[ManifestName])

\* C12: once NewLoader has returned a Loader its manifest is the snapshot
\* decoded at construction and stays so; every lookup a goroutine has made
\* and every result Path has returned, in any interleaving and whatever has
\* happened to manifest.json since, is the one that snapshot determines.
C12_SnapshotFixed ==
  loader.made =>
    /\ loader.manifest = Snapshot
    /\ \A i \in 1..Len(calls) :
         calls[i].returned = Path(Snapshot, calls[i].assetPath)
    /\ \A g \in Goroutines :
         frames[g].pc = "looked" =>
           /\ frames[g].ok = (frames[g].assetPath \in DOMAIN Snapshot)
           /\ frames[g].ok => frames[g].fingerprinted = Snapshot[frames[g].assetPath]

\* a loader of the tests' manifest, a pipeline run that has since written
\* another manifest.json, a call that returned the snapshot's name, and two
\* goroutines inside Path at once
C12_Witness ==
  /\ loader.made
  /\ pc = "done"
  /\ Decode(fs[Join(outputDir, ManifestName)]) # loader.manifest
  /\ AJs \in DOMAIN Decode(fs[Join(outputDir, ManifestName)])
  /\ \E g \in Goroutines, h \in Goroutines :
       /\ g # h
       /\ frames[g].pc = "looked"
       /\ frames[h].pc = "looked"
       /\ frames[g].assetPath = AJs
       /\ frames[g].fingerprinted = Mapped

\* the same with the manifest.json deleted by a run that is under way
C12_WitnessDeleted ==
  /\ loader.made
  /\ pc = "walking"
  /\ ~Exists(fs, Join(outputDir, ManifestName))
  /\ \E i \in 1..Len(calls) :
       /\ calls[i].assetPath = AJs
       /\ calls[i].returned = Mount \o <<"/">> \o Mapped

\* C13: every file that writeMinifiedFile has written has the mode 0644,
\* whatever the umask of the process and whether or not a file was at the
\* destination before.
C13_FixedMode == wrote = "nil" => (dest.exists /\ dest.mode = FileMode)

\* What the code does give for C13: the mode of a written file is the mode
\* the file had before, or 0666 without the bits of the umask.
ModeFromCreate ==
  wrote = "nil" =>
    /\ dest.exists
    /\ dest.mode \in OldModes \cup {AndNot(CreateMode, umask)}

\* a run is under way
Running == pc \in {"walking", "writing"}

\* C14: the steps of a run are ordered. While files are walked the output
\* directory holds nothing but what this run has written, so it was emptied
\* before the first file was read, and manifest.json is not yet there; a
\* file enters the manifest only when its output has been written, so each
\* entry names a file this run wrote and that exists; the run is done only
\* when the walk has no entry left and every file it hashed is recorded.
C14_StepsOrdered ==
  /\ Running =>
       /\ ~Exists(fs, Join(outputDir, ManifestName))
       /\ {Join(outputDir, r) : r \in DOMAIN Tree(fs, outputDir)} = DOMAIN written
  /\ pc = "writing" => cur.relPath \notin DOMAIN manifest
  /\ \A k \in DOMAIN manifest :
       /\ IsFile(fs, Join(outputDir, manifest[k]))
       /\ Join(outputDir, manifest[k]) \in DOMAIN written
  /\ pc = "done" =>
       /\ stack = <<>>
       /\ cur = NoCur
       /\ DOMAIN manifest = DOMAIN hashed
       /\ IsFile(fs, Join(outputDir, ManifestName))

\* the second run of a behaviour, after a first that wrote manifest.json,
\* with one file recorded and the walk not yet at its end
C14_Witness ==
  /\ pc = "walking"
  /\ last.run = 1
  /\ nruns = 2
  /\ DOMAIN manifest # {}
  /\ stack # <<>>

\* C15: within a run no two source paths are mapped to the same
\* fingerprinted path, so every recorded file has an output file of its
\* own, and no fingerprinted path is manifest.json.
C15_NamesInjective ==
  /\ \A j \in DOMAIN manifest : \A k \in DOMAIN manifest :
       j # k => manifest[j] # manifest[k]
  /\ \A k \in DOMAIN manifest :
       Join(outputDir, manifest[k]) # Join(outputDir, ManifestName)
  /\ Cardinality(DOMAIN written) = Cardinality(DOMAIN manifest)

\* a completed run on files with equal bytes in which the fingerprinted
\* name of one source file is the path of another, and a source file is
\* called manifest.json
C15_Witness ==
  /\ pc = "done"
  /\ {NoExt, LikeNoExt, AJs, LikeAJs, ManifestName} \subseteq DOMAIN manifest
  /\ manifest[NoExt] = LikeNoExt
  /\ manifest[AJs] = LikeAJs
  /\ \A j \in DOMAIN hashed : \A k \in DOMAIN hashed : hashed[j] = hashed[k]

\* where the extension of the final element of path k begins: at its last
\* dot, or after its end when it has none
ExtStart(k) ==
  LET slash == LastIndex(k, "/")
      dots == {i \in (slash + 1)..Len(k) : k[i] = "."}
  IN  IF dots = {} THEN Len(k) + 1 ELSE CHOOSE i \in dots : \A j \in dots : j <= i

\* what stands in name v where a fragment was put into path k
FragmentAt(k, v) == SubSeq(v, ExtStart(k) + 1, Len(v) - (Len(k) - ExtStart(k) + 1))

IsHex(str) ==
  \A i \in 1..Len(str) : \E d \in 1..Len(HexDigits) : str[i] = HexDigits[d]

\* C16: a fingerprinted name is the relative path with "-" and the hash
\* fragment put immediately before the extension of its final element, at
\* the end when that element has no dot; the directory part is unchanged;
\* the fragments of one run all have the same length.
C16_NameFormat ==
  /\ \A k \in DOMAIN manifest :
       LET v == manifest[k]
           cut == ExtStart(k)
           frag == FragmentAt(k, v)
       IN  /\ frag # <<>>
           /\ IsHex(frag)
           /\ v = SubSeq(k, 1, cut - 1) \o <<"-">> \o frag \o SubSeq(k, cut, Len(k))
           /\ LastIndex(v, "/") = LastIndex(k, "/")
           /\ SubSeq(v, 1, LastIndex(v, "/")) = SubSeq(k, 1, LastIndex(k, "/"))
  /\ \A j \in DOMAIN manifest : \A k \in DOMAIN manifest :
       Len(FragmentAt(j, manifest[j])) = Len(FragmentAt(k, manifest[k]))

\* a completed run with a file in a directory whose name has a dot, files
\* without extension, a name with two dots and one that begins with a dot
C16_Witness ==
  /\ pc = "done"
  /\ {DotDirFile, NoExt, TwoDots, DotFile, EndsInDot} \subseteq DOMAIN manifest
  /\ manifest[DotDirFile] = DotDirFile \o <<"-">> \o PlainFragment
  /\ manifest[TwoDots] = <<"a", ".", "b", "-">> \o PlainFragment \o JsExt

\* the names of the manifest are valid UTF-8
ValidNames ==
  \A k \in DOMAIN manifest : Coerce(k) = k /\ Coerce(manifest[k]) = manifest[k]

\* C17: when the manifest.json of a successful run is loaded from the output
\* directory, the loader's mapping is the manifest the run had in memory:
\* for every file r of the source tree Path(r) is /dist joined with the
\* name the run wrote for r, and that file exists under the output
\* directory.
C17_RoundTrip ==
  (loader.made /\ pc = "done") =>
    /\ loader.manifest = manifest
    /\ \A r \in DOMAIN startTree :
         /\ r \in DOMAIN manifest
         /\ Path(loader.manifest, r) = Mount \o <<"/">> \o manifest[r]
         /\ IsFile(fs, Join(outputDir, manifest[r]))
    /\ \A i \in 1..Len(calls) :
         calls[i].assetPath \in DOMAIN manifest =>
           calls[i].returned = Mount \o <<"/">> \o manifest[calls[i].assetPath]

\* What the code does give for C17: the round trip, for flags that are
\* apart and names that are valid UTF-8.
RoundTripApartValid == (Apart /\ ValidNames) => C17_RoundTrip

\* the round trip for flags that are apart, whatever the names
RoundTripApart == Apart => C17_RoundTrip

\* the round trip for names that are valid UTF-8, whatever the flags
RoundTripValid == ValidNames => C17_RoundTrip

\* a loader of a run that recorded three files was asked for one of them
RoundTripReached ==
  /\ loader.made
  /\ pc = "done"
  /\ Apart
  /\ Cardinality(DOMAIN manifest) = 3
  /\ \E i \in 1..Len(calls) : calls[i].assetPath \in DOMAIN manifest

\* a run has started and nothing but the run has acted since
InRun == pc \in {"walking", "writing", "done", "failed"}

\* C18: a run deletes, creates and modifies nothing under the source
\* directory, for any flags, the defaults included: during and after the
\* run the source files and their contents are those of its start.
C18_SourceUntouched == InRun => Tree(fs, sourceDir) = startTree

\* What the code does give for C18: the same, for flags that are apart.
SourceUntouchedApart == Apart => C18_SourceUntouched

\* C19: after a run that failed while the source files were walked or
\* processed the output directory holds no manifest.json, also when an
\* earlier run had written one there.
C19_NoStaleManifest ==
  (pc = "failed" /\ err = WalkErr) => ~Exists(fs, Join(outputDir, ManifestName))

\* a run that failed at a file after it had written another, in a
\* behaviour whose earlier run had succeeded and written manifest.json
C19_Witness ==
  /\ pc = "failed"
  /\ err = WalkErr
  /\ failedAt # NoPath
  /\ last.run = 1
  /\ nruns = 2
  /\ ManifestName \in DOMAIN last.out
  /\ DOMAIN written # {}

\* C20: the fragment in the name of every output file is the beginning of
\* the hash of exactly the bytes that were read, and then minified or
\* copied, to write that file; also when another process writes to the
\* source file while the run is under way.
C20_NameOfBytesWritten ==
  \A k \in DOMAIN manifest :
    /\ k \in DOMAIN copied
    /\ Fragment(k, manifest[k]) =
         SubSeq(Hex(Sum(copied[k])), 1, Len(Fragment(k, manifest[k])))
    /\ fs[Join(outputDir, manifest[k])].bytes = Transform(Ext(k), copied[k])

\* What the code does give for C20: the same as long as the bytes of the
\* file at its second read are those of its first.
NameOfBytesHashed ==
  \A k \in DOMAIN manifest :
    hashed[k] = copied[k] =>
      Fragment(k, manifest[k]) =
        SubSeq(Hex(Sum(copied[k])), 1, Len(Fragment(k, manifest[k])))

\* the path is the mount point or lies below it
UnderMount(p) ==
  \/ p = Mount
  \/ /\ Len(p) > Len(Mount) + 1
     /\ SubSeq(p, 1, Len(Mount) + 1) = Mount \o <<"/">>

\* the name has a ".." element
Climbs(name) == \E i \in 1..Len(Split(name)) : Split(name)[i] = <<".", ".">>

\* C21: for every argument and every loaded manifest the path Path returns
\* lies under the mount point: it is /dist or begins with /dist/, also
\* when the argument or the mapped name has ".." elements, begins with a
\* slash or is empty.
C21_UnderMount ==
  \A i \in 1..Len(calls) : UnderMount(calls[i].returned)

\* What the code does give for C21: the result lies under the mount point
\* when the name that is joined to it, the mapped name of a key and the
\* argument itself otherwise, has no ".." element.
UnderMountUnlessClimbs ==
  \A i \in 1..Len(calls) :
    LET p == calls[i].assetPath
        target == IF p \in DOMAIN loader.manifest THEN loader.manifest[p] ELSE p
    IN  ~Climbs(target) => UnderMount(calls[i].returned)

\* Path was called with the empty string, with a rooted name and with a
\* key, and each result lies under the mount point
UnderMountReached ==
  /\ \E i \in 1..Len(calls) :
       calls[i].assetPath = <<>> /\ calls[i].returned = Mount
  /\ \E i \in 1..Len(calls) :
       calls[i].assetPath = Rooted /\ calls[i].returned = Mount \o Rooted
====
